---- MODULE Spec2Model ----
(***************************************************************************)
(* Model of twobody/elements.py: the constructors of KeplerElements and    *)
(* TwoBodyKeplerElements, the base step OrbitalElements.__init__, the      *)
(* read-only properties synthesised by ElementsMeta, and get_component.    *)
(*                                                                         *)
(* Encoding.  An optional value is a sequence: <<>> is Python's None and   *)
(* <<v>> is the value v; <<0, 0>> is a floating-point NaN (a value that is *)
(* not None and for which every comparison is False).  Times, lengths and  *)
(* masses are integers in the default unit system (day, au, Msun); angles  *)
(* are integer degrees; the eccentricity is an integer number of tenths.   *)
(* A semi-major axis is a rational num/den with its unit, because          *)
(* get_component scales it by a mass ratio.  Floating-point rounding is    *)
(* not modelled.                                                           *)
(***************************************************************************)
EXTENDS Integers, Sequences, FiniteSets

VARIABLES pc, call, elem, comp, err, inner

vars == <<pc, call, elem, comp, err, inner>>

\* ---------------------------------------------------------------- bounds
MaxP == 1
MaxA == 1
MaxM == 2

\* ---------------------------------------------------------------- values
None == <<>>
Some(v) == <<v>>
NaN == <<0, 0>>
IsNone(x) == Len(x) = 0
IsNaN(x) == Len(x) = 2
Val(x) == x[1]

\* x < n and x > n for an optional number that is not None
Lt(x, n) == ~IsNaN(x) /\ Val(x) < n
Gt(x, n) == ~IsNaN(x) /\ Val(x) > n

Au(n) == Some([num |-> n, den |-> 1, unit |-> "au"])
Dimensionless1 == Some([num |-> 1, den |-> 1, unit |-> "one"])

NoError == "ok"

\* default_units: angles in degrees; the other unit system reports arcminutes
default_units == [name |-> "default", angle_per_deg |-> 1]
arcmin_units == [name |-> "arcmin", angle_per_deg |-> 60]

\* Time('J2000'), and Time(t0, format='mjd', scale='tcb')
J2000 == [format |-> "jyear_str", scale |-> "tt", val |-> 2000]
MjdTcb(v) == [format |-> "mjd", scale |-> "tcb", val |-> v]
\* a bare number given as t0
Number(v) == [format |-> "number", scale |-> "", val |-> v]

\* ------------------------------------------------------- class definitions
KeplerNames == <<"P", "a", "e", "omega", "i", "Omega", "M0">>
TwoBodyNames == <<"P", "a", "e", "m1", "m2", "omega", "i", "Omega", "M0">>

names(cls) == IF cls = "TwoBodyKeplerElements" THEN TwoBodyNames ELSE KeplerNames

Range(s) == {s[k] : k \in 1..Len(s)}

\* the private attribute behind an element name: '_' + name
Private(name) ==
  CASE name = "P" -> "_P"
    [] name = "a" -> "_a"
    [] name = "e" -> "_e"
    [] name = "omega" -> "_omega"
    [] name = "i" -> "_i"
    [] name = "Omega" -> "_Omega"
    [] name = "M0" -> "_M0"
    [] name = "m1" -> "_m1"
    [] name = "m2" -> "_m2"
    [] OTHER -> "_"

\* ElementsMeta.__new__ puts a getter-only property on the class for every
\* name in its `names`
HasProperty(cls, attr) == attr \in Range(names(cls))

\* object.__new__: an instance with no attribute set
NewInstance(cls) ==
  [cls |-> cls, attrs |-> {},
   P |-> None, a |-> None, e |-> None, omega |-> None, i |-> None,
   Omega |-> None, M0 |-> None, t0 |-> None, units |-> None,
   m1 |-> None, m2 |-> None, m_tot |-> None]

Raise(e, self) == [err |-> e, self |-> self]
Return(self) == [err |-> NoError, self |-> self]

\* ------------------------------------------------- external collaborators
\* coord.Angle(x).wrap_at(360*u.deg): subtract 360 deg times the number of
\* whole turns, floor((x - 0) / 360)
wrap_at(x) == Some(Val(x) - 360 * (Val(x) \div 360))

\* UnitSystem.decompose on an angle: the value in the system's angle unit
decompose_angle(units, x) ==
  [val |-> Val(x) * Val(units).angle_per_deg, per_deg |-> Val(units).angle_per_deg]

\* least x in lo..hi with c * x^k >= t, by bisection (it holds at hi)
RECURSIVE CeilRoot(_, _, _, _, _)
CeilRoot(k, c, t, lo, hi) ==
  IF lo >= hi THEN hi
  ELSE LET mid == (lo + hi) \div 2
           pow == IF k = 2 THEN mid * mid ELSE mid * mid * mid
           need == (t + c - 1) \div c
       IN IF pow >= need THEN CeilRoot(k, c, t, lo, mid)
          ELSE CeilRoot(k, c, t, mid + 1, hi)

\* Kepler's third law, P[yr]^2 * m[Msun] = a[au]^3, with P converted to days
\* (1 yr = 1461/4 d) and rounded up to a whole day.  None ** 3 is a
\* TypeError; the square root of a negative number is NaN.
a_m_to_P(a, m) ==
  IF IsNone(a) THEN [err |-> "TypeError: unsupported operand type", val |-> None]
  ELSE LET n == Val(a).num
           d == Val(a).den
       IN IF n < 0 THEN [err |-> NoError, val |-> NaN]
          ELSE [err |-> NoError,
                val |-> Some(CeilRoot(2, 16 * m * d * d * d,
                                      1461 * 1461 * n * n * n,
                                      0, 1461 * (n * n + 1)))]

\* the inverse: a[au]^3 = m * P[yr]^2, rounded up to a whole au
P_m_to_a(P, m) ==
  [err |-> NoError,
   val |-> Au(CeilRoot(3, 1461 * 1461, 16 * m * Val(P) * Val(P),
                       0, m * Val(P) * Val(P) + 1))]

\* ------------------------------------------------------- OrbitalElements
\* The base step: resolve the unit system, then require a private attribute
\* for every name of the instance's class.
OrbitalElements__init__(self, units) ==
  LET resolved == IF IsNone(units) THEN Some(default_units) ELSE units
      self1 == [self EXCEPT !.units = resolved, !.attrs = @ \cup {"units"}]
  IN IF \E k \in 1..Len(names(self1.cls)) :
          Private(names(self1.cls)[k]) \notin self1.attrs
     THEN Raise("AttributeError: Invalid class definition!", self1)
     ELSE Return(self1)

\* the getter of a synthesised property: getattr(self, '_' + name) succeeds
CanGet(self, name) == Private(name) \in self.attrs

\* self.<attr> = value from inside a method: a getter-only property on the
\* class refuses the assignment
CanSet(self, attr) == ~HasProperty(self.cls, attr)

\* --------------------------------------------------------- KeplerElements
\* lines 101-111: defaults of M0 and t0
DefaultM0(M0) == IF IsNone(M0) THEN Some(0) ELSE M0
DefaultT0(t0) ==
  IF IsNone(t0) THEN Some(J2000)
  ELSE IF Val(t0).format = "number" THEN Some(MjdTcb(Val(t0).val))
  ELSE t0

\* lines 113-131: the checks, in source order; NoError when all pass
KeplerValidateCode(kw) ==
  IF IsNone(kw.P) THEN "ValueError: You must specify P."
  ELSE IF IsNone(kw.omega) THEN "ValueError: You must specify omega."
  ELSE IF IsNone(kw.i) THEN "ValueError: You must specify i."
  ELSE IF IsNone(kw.Omega) THEN "ValueError: You must specify Omega."
  ELSE IF Lt(kw.P, 0) THEN "ValueError: Period P must be positive."
  ELSE IF ~IsNone(kw.a) /\ Val(kw.a).num < 0
       THEN "ValueError: Semi-major axis a must be positive."
  ELSE IF IsNone(kw.e) THEN "TypeError: < not supported for NoneType"
  ELSE IF Val(kw.e) < 0 \/ Val(kw.e) >= 10
       THEN "ValueError: Eccentricity e must be: 0 <= e < 1"
  ELSE IF Lt(kw.i, 0) \/ Gt(kw.i, 180)
       THEN "ValueError: Inclination i must be between 0 and 180"
  ELSE NoError

\* the checks with the inclination test left out
KeplerValidate_NoInclinationCheck(kw) ==
  IF KeplerValidateCode(kw) = "ValueError: Inclination i must be between 0 and 180"
  THEN NoError
  ELSE KeplerValidateCode(kw)

\* the checks with the inclination tested before the eccentricity
KeplerValidate_InclinationFirst(kw) ==
  IF KeplerValidateCode(kw) \in {"TypeError: < not supported for NoneType",
                                "ValueError: Eccentricity e must be: 0 <= e < 1"}
     /\ (Lt(kw.i, 0) \/ Gt(kw.i, 180))
  THEN "ValueError: Inclination i must be between 0 and 180"
  ELSE KeplerValidateCode(kw)

KeplerValidate(kw) == KeplerValidateCode(kw)

\* the private attributes with Omega stored as given, like i and M0
KeplerAssign_NodeNotWrapped(self, kw) ==
  [self EXCEPT
     !.a = IF ~IsNone(kw.a) THEN kw.a ELSE Dimensionless1,
     !.P = kw.P,
     !.e = kw.e,
     !.omega = wrap_at(kw.omega),
     !.i = kw.i,
     !.Omega = kw.Omega,
     !.M0 = DefaultM0(kw.M0),
     !.t0 = DefaultT0(kw.t0),
     !.attrs = @ \cup {"_a", "_P", "_e", "_omega", "_i", "_Omega", "_M0", "t0"}]

\* lines 133-141: the private attributes
KeplerAssign(self, kw) ==
  [self EXCEPT
     !.a = IF ~IsNone(kw.a) THEN kw.a ELSE Dimensionless1,
     !.P = kw.P,
     !.e = kw.e,
     !.omega = wrap_at(kw.omega),
     !.i = kw.i,
     !.Omega = wrap_at(kw.Omega),
     !.M0 = DefaultM0(kw.M0),
     !.t0 = DefaultT0(kw.t0),
     !.attrs = @ \cup {"_a", "_P", "_e", "_omega", "_i", "_Omega", "_M0", "t0"}]

KeplerElements__init__(self, kw) ==
  LET e == KeplerValidate(kw)
  IN IF e # NoError THEN Raise(e, self)
     ELSE OrbitalElements__init__(KeplerAssign(self, kw), kw.units)

\* the keyword arguments as the signature of line 72 binds them: e = 0 when
\* the caller leaves it out
KeplerBind(args) ==
  [P |-> args.P, a |-> args.a,
   e |-> IF args.e_kw THEN args.e ELSE Some(0),
   omega |-> args.omega, i |-> args.i, Omega |-> args.Omega,
   M0 |-> args.M0, t0 |-> args.t0, units |-> args.units]

\* -------------------------------------------------- TwoBodyKeplerElements
\* reading self.<name>: through the property when the class has one,
\* otherwise the plain instance attribute
Readable(self, name) ==
  IF HasProperty(self.cls, name) THEN CanGet(self, name) ELSE name \in self.attrs

\* lines 190-192, after the superclass step has returned
TwoBodyAssignMasses(self, m1, m2) ==
  IF ~CanSet(self, "m1")
  THEN Raise("AttributeError: property m1 has no setter", self)
  ELSE LET s1 == [self EXCEPT !.m1 = m1, !.attrs = @ \cup {"m1"}]
       IN IF ~CanSet(s1, "m2")
          THEN Raise("AttributeError: property m2 has no setter", s1)
          ELSE LET s2 == [s1 EXCEPT !.m2 = m2, !.attrs = @ \cup {"m2"}]
               IN IF ~Readable(s2, "m1") \/ ~Readable(s2, "m2")
                  THEN Raise("AttributeError: no attribute _m1", s2)
                  ELSE Return([s2 EXCEPT !.m_tot = Some(Val(m1) + Val(m2)),
                                         !.attrs = @ \cup {"m_tot"}])

\* lines 173-192; e is None when the caller leaves it out, and the
\* superclass step receives omega for its Omega parameter
TwoBodyKeplerElements__init__(self, args) ==
  IF IsNone(args.m1) \/ IsNone(args.m2)
  THEN Raise("ValueError: You must specify m1 and m2.", self)
  ELSE LET m == Val(args.m1) + Val(args.m2)
           P == IF IsNone(args.P) THEN a_m_to_P(args.a, m)
                ELSE [err |-> NoError, val |-> args.P]
       IN IF P.err # NoError THEN Raise(P.err, self)
          ELSE LET a == IF IsNone(args.a) THEN P_m_to_a(P.val, m)
                        ELSE [err |-> NoError, val |-> args.a]
                   r == KeplerElements__init__(self,
                          [P |-> P.val, a |-> a.val,
                           e |-> IF args.e_kw THEN args.e ELSE None,
                           omega |-> args.omega, i |-> args.i,
                           Omega |-> args.omega,
                           M0 |-> args.M0, t0 |-> args.t0,
                           units |-> args.units])
               IN IF r.err # NoError THEN r
                  ELSE TwoBodyAssignMasses(r.self, args.m1, args.m2)

\* the angle behind a reported value, in degrees
Degrees(q) == q.val \div q.per_deg

\* lines 194-213
get_component(self, num) ==
  IF num \notin {"1", "2"}
  THEN Raise("ValueError: Invalid input - must be 1 or 2", self)
  ELSE IF \E n \in {"m1", "m2", "m_tot", "a", "omega", "P", "e", "i",
                    "Omega", "M0", "t0"} : ~Readable(self, n)
  THEN Raise("AttributeError: no such attribute", self)
  ELSE LET m == IF num = "1" THEN Val(self.m2) ELSE Val(self.m1)
           a == Some([num |-> m * Val(self.a).num,
                      den |-> Val(self.m_tot) * Val(self.a).den,
                      unit |-> Val(self.a).unit])
           w == Degrees(decompose_angle(self.units, self.omega))
           omega == IF num = "1" THEN Some(w) ELSE Some(w + 180)
       IN KeplerElements__init__(NewInstance("KeplerElements"),
            [P |-> self.P, a |-> a, e |-> self.e, omega |-> omega,
             i |-> Some(Degrees(decompose_angle(self.units, self.i))),
             Omega |-> Some(Degrees(decompose_angle(self.units, self.Omega))),
             M0 |-> Some(Degrees(decompose_angle(self.units, self.M0))),
             t0 |-> self.t0, units |-> None])

\* ------------------------------------------------------------ the callers
OptP == {None} \cup {Some(v) : v \in -1..MaxP}
OptA == {None} \cup {Au(v) : v \in -1..MaxA}
OptM == {None} \cup {Some(v) : v \in 1..MaxM}
OptE == {None} \cup {Some(v) : v \in {-1, 0, 5, 10}}
Opt(S) == {None} \cup {Some(v) : v \in S}

\* what the caller writes for e: nothing, e=None, or e=<tenths>
EArgs == {[e_kw |-> FALSE, e |-> None]} \cup {[e_kw |-> TRUE, e |-> v] : v \in OptE}

\* the keyword arguments of one call
Args(P, a, e, omega, i, Omega, M0, t0, units, m1, m2) ==
  [P |-> P, a |-> a, e_kw |-> e.e_kw, e |-> e.e, omega |-> omega, i |-> i,
   Omega |-> Omega, M0 |-> M0, t0 |-> t0, units |-> units,
   m1 |-> m1, m2 |-> m2]

\* a script calls KeplerElements(...) with any of these arguments
InitKepler ==
  \E P \in OptP, a \in OptA, e \in EArgs,
     omega \in Opt({-10, 67, 190, 370}), i \in Opt({-1, 0, 180, 181}),
     Omega \in Opt({-10, 33, 370}), M0 \in Opt({53}),
     t0 \in Opt({Number(59112)}), units \in Opt({arcmin_units}) :
       call = [op |-> "KeplerElements", num |-> "",
               args |-> Args(P, a, e, omega, i, Omega, M0, t0, units,
                             None, None)]

\* or TwoBodyKeplerElements(...), followed or not by get_component(num)
InitTwoBody ==
  \E P \in OptP, a \in OptA, e \in EArgs,
     omega \in Opt({-10, 67, 190, 370}), i \in Opt({21, 181}),
     Omega \in Opt({33, 370}),
     m1 \in OptM, m2 \in OptM, num \in {"", "1", "2", "3"} :
       call = [op |-> IF num = "" THEN "TwoBodyKeplerElements"
                      ELSE "get_component",
               num |-> num,
               args |-> Args(P, a, e, omega, i, Omega, Some(53),
                             Some(Number(59112)), None, m1, m2)]

Init ==
  /\ pc = "start"
  /\ InitKepler \/ InitTwoBody
  /\ elem = None
  /\ comp = None
  /\ err = NoError
  /\ inner = None

\* cls(**kwargs): the caller obtains the instance only when __init__ returns
Yield(r) == IF r.err = NoError THEN Some(r.self) ELSE None

\* elem = KeplerElements(...)
NewKeplerElements ==
  /\ pc = "start"
  /\ call.op = "KeplerElements"
  /\ LET r == KeplerElements__init__(NewInstance("KeplerElements"),
                                     KeplerBind(call.args))
     IN /\ elem' = Yield(r)
        /\ err' = r.err
        /\ inner' = Some(r.self)
  /\ pc' = "done"
  /\ UNCHANGED <<call, comp>>

\* elem = TwoBodyKeplerElements(...)
NewTwoBodyKeplerElements ==
  /\ pc = "start"
  /\ call.op = "TwoBodyKeplerElements"
  /\ LET r == TwoBodyKeplerElements__init__(
                NewInstance("TwoBodyKeplerElements"), call.args)
     IN /\ elem' = Yield(r)
        /\ err' = r.err
        /\ inner' = Some(r.self)
  /\ pc' = "done"
  /\ UNCHANGED <<call, comp>>

\* elem = TwoBodyKeplerElements(...); comp = elem.get_component(num)
CallGetComponent ==
  /\ pc = "start"
  /\ call.op = "get_component"
  /\ LET r == TwoBodyKeplerElements__init__(
                NewInstance("TwoBodyKeplerElements"), call.args)
         g == get_component(r.self, call.num)
     IN IF r.err # NoError
        THEN /\ elem' = None
             /\ comp' = None
             /\ err' = r.err
             /\ inner' = Some(r.self)
        ELSE /\ elem' = Some(r.self)
             /\ comp' = Yield(g)
             /\ err' = g.err
             /\ inner' = Some(g.self)
  /\ pc' = "done"
  /\ UNCHANGED call

Next == NewKeplerElements \/ NewTwoBodyKeplerElements \/ CallGetComponent

Spec == Init /\ [][Next]_vars

\* ================================================================ claims
Done == pc = "done"
IsKepler == call.op = "KeplerElements"
IsTwoBody == call.op = "TwoBodyKeplerElements"
IsComponent == call.op = "get_component"

ErrMasses == "ValueError: You must specify m1 and m2."
ErrPRange == "ValueError: Period P must be positive."
ErrARange == "ValueError: Semi-major axis a must be positive."
ErrERange == "ValueError: Eccentricity e must be: 0 <= e < 1"
ErrEType == "TypeError: < not supported for NoneType"
ErrIRange == "ValueError: Inclination i must be between 0 and 180"
ErrIncomplete == "AttributeError: Invalid class definition!"

\* the ranges the specification gives, on the arguments the caller wrote
AnglesGiven(x) == ~IsNone(x.omega) /\ ~IsNone(x.i) /\ ~IsNone(x.Omega)
InclinationInRange(x) == Val(x.i) >= 0 /\ Val(x.i) <= 180
EccentricityInRange(x) == ~x.e_kw \/ (~IsNone(x.e) /\ Val(x.e) >= 0 /\ Val(x.e) < 10)
PeriodInRange(x) == IsNone(x.P) \/ Val(x.P) > 0
AxisInRange(x) == IsNone(x.a) \/ Val(x.a).num > 0

\* everything but the ranges of P and a
OtherwiseValid(x) ==
  /\ ~IsNone(x.P) /\ AnglesGiven(x)
  /\ EccentricityInRange(x) /\ InclinationInRange(x)

ValidKeplerInput(x) ==
  /\ ~IsNone(x.P) /\ AnglesGiven(x)
  /\ PeriodInRange(x) /\ AxisInRange(x)
  /\ EccentricityInRange(x) /\ InclinationInRange(x)

ValidTwoBodyInput(x) ==
  /\ ~IsNone(x.m1) /\ ~IsNone(x.m2)
  /\ ~IsNone(x.P) \/ ~IsNone(x.a)
  /\ AnglesGiven(x)
  /\ PeriodInRange(x) /\ AxisInRange(x)
  /\ EccentricityInRange(x) /\ InclinationInRange(x)

\* every declared name of the object's class can be read
AllNamesReadable(o) == \A k \in 1..Len(names(o.cls)) : CanGet(o, names(o.cls)[k])

\* the value a property reports for an angle element
ReportedOmega(o) == decompose_angle(o.units, o.omega)
ReportedNode(o) == decompose_angle(o.units, o.Omega)

\* a valid two-body input that also supplies e (with e left out the two-body
\* constructor fails earlier, at the eccentricity comparison: see C10)
ValidTwoBodyInputWithE(x) == ValidTwoBodyInput(x) /\ x.e_kw

\* C1: every valid construction, of either variant, succeeds and leaves every
\* name of the variant's `names` readable; in particular the completeness
\* check never rejects a valid two-body construction.
C1_ValidConstructionSucceeds ==
  (Done /\ ( (IsKepler /\ ValidKeplerInput(call.args))
          \/ (IsTwoBody /\ ValidTwoBodyInputWithE(call.args)) ))
    => /\ err = NoError
       /\ ~IsNone(elem)
       /\ AllNamesReadable(Val(elem))

\* C2: KeplerElements rejects every period P <= 0 with the period error and
\* yields no object, and accepts every P > 0 with otherwise valid inputs.
C2_PeriodStrictlyPositive ==
  (Done /\ IsKepler /\ ~IsNone(call.args.P) /\ AnglesGiven(call.args))
    => /\ Val(call.args.P) <= 0 => (err # NoError /\ IsNone(elem))
       /\ (Val(call.args.P) <= 0 /\ OtherwiseValid(call.args)) => err = ErrPRange
       /\ ValidKeplerInput(call.args) => (err = NoError /\ ~IsNone(elem))

\* C3: for a valid two-body instance the component's semi-major axis is the
\* parent's scaled by the other body's share of the total mass:
\* get_component('1').a = a*m2/(m1+m2), get_component('2').a = a*m1/(m1+m2).
C3_ComponentAxisScaled ==
  (Done /\ IsComponent /\ call.num \in {"1", "2"}
        /\ ValidTwoBodyInputWithE(call.args))
    => /\ ~IsNone(elem)
       /\ ~IsNone(comp)
       /\ LET ca == Val(Val(comp).a)
              pa == Val(Val(elem).a)
              m1 == Val(call.args.m1)
              m2 == Val(call.args.m2)
              other == IF call.num = "1" THEN m2 ELSE m1
          IN ca.num * pa.den * (m1 + m2) = pa.num * other * ca.den

\* C4: for a valid two-body instance component 1 reports the parent's omega
\* and component 2 reports it turned by 180 degrees modulo 360.
C4_ComponentPericenterOpposed ==
  (Done /\ IsComponent /\ call.num \in {"1", "2"}
        /\ ValidTwoBodyInputWithE(call.args))
    => /\ ~IsNone(elem)
       /\ ~IsNone(comp)
       /\ LET c == Degrees(ReportedOmega(Val(comp)))
              p == Degrees(ReportedOmega(Val(elem)))
          IN IF call.num = "1" THEN c = p ELSE (c - p) % 360 = 180

\* an angle reported by object o for an input of x degrees lies in [0, 360)
\* degrees and is congruent to x modulo 360 degrees
WrappedFrom(q, x) ==
  /\ q.val >= 0
  /\ q.val < 360 * q.per_deg
  /\ (q.val - x * q.per_deg) % (360 * q.per_deg) = 0

\* C5: every successfully constructed object (either variant, and every
\* object get_component returns) reports omega and Omega in [0, 360) degrees,
\* equal to the input angle modulo 360 degrees.
C5_AnglesWrapped ==
  Done =>
    /\ ~IsNone(elem) =>
         /\ WrappedFrom(ReportedOmega(Val(elem)), Val(call.args.omega))
         /\ WrappedFrom(ReportedNode(Val(elem)), Val(call.args.Omega))
    /\ ~IsNone(comp) =>
         /\ WrappedFrom(ReportedOmega(Val(comp)),
                        Val(call.args.omega) + (IF call.num = "2" THEN 180 ELSE 0))
         /\ WrappedFrom(ReportedNode(Val(comp)),
                        Degrees(ReportedNode(Val(elem))))

\* an input of 370 degrees is reported as 10 degrees, and one of -10 degrees
\* as 350 degrees, in the unit of the object's unit system
C5_Witness ==
  /\ Done /\ IsKepler /\ ~IsNone(elem)
  /\ Val(call.args.omega) = 370
  /\ Val(call.args.Omega) = -10
  /\ ReportedOmega(Val(elem)).val = 10 * Val(Val(elem).units).angle_per_deg
  /\ ReportedNode(Val(elem)).val = 350 * Val(Val(elem).units).angle_per_deg

\* C6: KeplerElements rejects every supplied semi-major axis a <= 0 with the
\* axis error, and with a omitted a reads back as the dimensionless value 1.
C6_AxisStrictlyPositive ==
  (Done /\ IsKepler /\ ~IsNone(call.args.P) /\ AnglesGiven(call.args)
        /\ PeriodInRange(call.args))
    => /\ (~IsNone(call.args.a) /\ Val(call.args.a).num <= 0)
            => (err # NoError /\ IsNone(elem))
       /\ (~IsNone(call.args.a) /\ Val(call.args.a).num <= 0
             /\ OtherwiseValid(call.args))
            => err = ErrARange
       /\ (IsNone(call.args.a) /\ ValidKeplerInput(call.args))
            => (~IsNone(elem) /\ Val(elem).a = Dimensionless1)

\* an object with every declared field set (and the masses, for the two-body
\* variant)
Complete(o) ==
  /\ AllNamesReadable(o)
  /\ {"t0", "units"} \subseteq o.attrs
  /\ o.cls = "TwoBodyKeplerElements" => {"m1", "m2", "m_tot"} \subseteq o.attrs

\* the checks of the constructors, on the arguments the caller wrote (the
\* two-body variant resolves P or a from the other, and checks omega in the
\* place of Omega)
PassesChecks(op, x) ==
  /\ op # "KeplerElements" => (~IsNone(x.m1) /\ ~IsNone(x.m2))
  /\ op # "KeplerElements" => (~IsNone(x.P) \/ ~IsNone(x.a))
  /\ op = "KeplerElements" => (~IsNone(x.P) /\ ~IsNone(x.Omega))
  /\ ~IsNone(x.omega) /\ ~IsNone(x.i)
  /\ IsNone(x.P) \/ Val(x.P) >= 0
  /\ IsNone(x.a) \/ Val(x.a).num >= 0
  /\ IF x.e_kw THEN ~IsNone(x.e) /\ Val(x.e) >= 0 /\ Val(x.e) < 10
     ELSE op = "KeplerElements"
  /\ InclinationInRange(x)

\* C7: construction is all-or-nothing: an attempt either passes every check
\* and yields an object with all its fields set, or raises and yields no
\* object; no partially set object is ever observable.
C7_AllOrNothing ==
  Done =>
    /\ ~IsNone(elem) => (Complete(Val(elem)) /\ PassesChecks(call.op, call.args))
    /\ ~IsNone(comp) => (Complete(Val(comp)) /\ ~IsNone(elem))
    /\ (err # NoError /\ ~IsComponent) => IsNone(elem)
    /\ err # NoError => IsNone(comp)
    /\ err = NoError => ~IsNone(IF IsComponent THEN comp ELSE elem)

\* a two-body construction raised at the completeness check, after the
\* Kepler fields were assigned to the instance, and the caller holds nothing
C7_Witness ==
  /\ Done /\ IsTwoBody
  /\ err = ErrIncomplete
  /\ {"_P", "_a", "_e", "_omega", "_i", "_Omega", "_M0"} \subseteq Val(inner).attrs
  /\ ~Complete(Val(inner))
  /\ IsNone(elem)

\* the checks of KeplerElements in their documented order, each with the
\* error it raises, on the arguments as the signature binds them
KeplerChecks(kw) ==
  << [bad |-> IsNone(kw.P), e |-> "ValueError: You must specify P."],
     [bad |-> IsNone(kw.omega), e |-> "ValueError: You must specify omega."],
     [bad |-> IsNone(kw.i), e |-> "ValueError: You must specify i."],
     [bad |-> IsNone(kw.Omega), e |-> "ValueError: You must specify Omega."],
     [bad |-> ~IsNone(kw.P) /\ Lt(kw.P, 0), e |-> ErrPRange],
     [bad |-> ~IsNone(kw.a) /\ Val(kw.a).num < 0, e |-> ErrARange],
     [bad |-> IsNone(kw.e), e |-> ErrEType],
     [bad |-> ~IsNone(kw.e) /\ (Val(kw.e) < 0 \/ Val(kw.e) >= 10), e |-> ErrERange],
     [bad |-> ~IsNone(kw.i) /\ (Lt(kw.i, 0) \/ Gt(kw.i, 180)), e |-> ErrIRange] >>

Violated(kw) == {k \in 1..Len(KeplerChecks(kw)) : KeplerChecks(kw)[k].bad}

FirstViolated(kw) ==
  KeplerChecks(kw)[CHOOSE k \in Violated(kw) : \A j \in Violated(kw) : k <= j].e

\* C8: validation is fail-fast in a fixed order: the error raised is that of
\* the earliest violated check (presence of P, omega, i, Omega; P range;
\* a range; e range; i range), the completeness check runs only when all
\* have passed, and for the two-body variant the check of the masses
\* precedes all of them.
C8_FailFastOrder ==
  Done =>
    /\ IsKepler =>
         LET kw == KeplerBind(call.args)
         IN IF Violated(kw) # {} THEN err = FirstViolated(kw)
            ELSE err \in {NoError, ErrIncomplete}
    /\ ~IsKepler =>
         /\ (IsNone(call.args.m1) \/ IsNone(call.args.m2)) <=> err = ErrMasses
         /\ err = ErrIncomplete => PassesChecks(call.op, call.args)

\* an input violating the e range and the i range gets the e error
C8_Witness ==
  /\ Done /\ IsKepler
  /\ call.args.e_kw /\ call.args.e = Some(10)
  /\ call.args.i = Some(181)
  /\ err = ErrERange

\* C9: the two-body variant discards the caller's Omega: the object reports
\* Omega equal to the caller's omega wrapped into [0, 360) degrees, whatever
\* Omega was given, and every component carries that same Omega.
C9_NodeIsPericenter ==
  (Done /\ ~IsKepler /\ ValidTwoBodyInputWithE(call.args)
        /\ (IsComponent => call.num \in {"1", "2"}))
    => /\ ~IsNone(elem)
       /\ Degrees(ReportedNode(Val(elem))) = Val(call.args.omega) % 360
       /\ IsComponent =>
            /\ ~IsNone(comp)
            /\ Degrees(ReportedNode(Val(comp))) = Val(call.args.omega) % 360

\* C10: with e omitted and otherwise valid inputs, both variants pass the
\* eccentricity check as if e = 0 had been given, and e reads back as 0.
C10_EccentricityDefaultsToZero ==
  (Done /\ ~call.args.e_kw
        /\ ( (IsKepler /\ ValidKeplerInput(call.args))
          \/ (IsTwoBody /\ ValidTwoBodyInput(call.args)) ))
    => /\ err \notin {ErrEType, ErrERange}
       /\ IsKepler => (err = NoError /\ ~IsNone(elem))
       /\ ~IsNone(elem) => Val(elem).e = Some(0)

====
